---- MODULE Spec2Model ----
(***************************************************************************)
(* State-machine model of the chat page (src/pages/chat.tsx and its        *)
(* header-selector variant), the two model-selector surfaces               *)
(* (ModelSelector.tsx, SelectDataset.tsx) and the streaming hook they use. *)
(*                                                                         *)
(* React state is modelled by variables of the same names.  Every handler  *)
(* (click, stream callback, fetch continuation) is one action; the effects *)
(* React runs after the re-render the handler causes (default-model        *)
(* effect, mount of a selector surface) are part of that action.           *)
(***************************************************************************)
EXTENDS Integers, Sequences, FiniteSets, TLC

VARIABLES
  page,               \* which chat page is running: "chat" | "chat_header"
  conversation_id,    \* route parameter conversation_id (useParams)
  data_source_id,     \* route parameter; 0 models an absent parameter
  dataSets,           \* dataSetStore.dataSets; Undefined until loaded
  datasetType,        \* useState<string>() of the chat page
  messages,           \* ConversationLog
  processingMessages, \* ProcessingState
  selectedModel,      \* dataSetStore.selectedModel
  streams,            \* one record per sendMessage call, in call order
  selectDataset,      \* the SelectDataset surface (component state)
  modelSelector,      \* the header ModelSelector surface (component state)
  lastPick,           \* history: option the user picked last, NoPick if none
  autoAssigned,       \* history: how often the default-model effect has set the model
  fetches             \* history: one record per GET_MODELS request, in issue order

vars == << page, conversation_id, data_source_id, dataSets, datasetType, messages,
           processingMessages, selectedModel, streams, selectDataset,
           modelSelector, lastPick, autoAssigned, fetches >>

-----------------------------------------------------------------------------
(* Bounds of the model *)

\* questions submitted in one run
MaxQuestions == 2
\* events one stream delivers in DataSpec
MaxEvents == 2
\* events one stream delivers in Spec
MaxSelectorEvents == 1
\* events the single stream delivers in the fold specification
MaxFoldEvents == 3
\* firings of the default-model effect that are followed
MaxAutoAssign == 2

-----------------------------------------------------------------------------
(* JavaScript values carried by stream events *)

\* key not in the object (reads as undefined)
Missing == "undefined"
Null == "null"
EmptyStr == ""
JsTrue == "true"
JsFalse == "false"

\* JavaScript truthiness of the values used here
Truthy(v) == v \notin {Missing, Null, EmptyStr, JsFalse}

Fields == {"answer", "formatted_data_for_visualization", "recommended_visualization",
           "sql_query", "sql_valid", "parsed_question"}

StringFields == {"answer", "recommended_visualization", "sql_query"}
ObjectFields == {"formatted_data_for_visualization", "parsed_question"}

\* the values a well-typed, non-empty field can take
PresentValues(f) ==
  IF f = "sql_valid" THEN {JsTrue, JsFalse}
  ELSE IF f \in StringFields THEN {"s1", "s2"}
  ELSE {"o1", "o2"}

\* everything an event may hold under key f
WireValues(f) ==
  PresentValues(f) \cup {Missing, Null} \cup (IF f \in StringFields THEN {EmptyStr} ELSE {})

EmptyEvent == [f \in Fields |-> Missing]

\* the event {f: v}
OneField(f, v) == [EmptyEvent EXCEPT ![f] = v]

-----------------------------------------------------------------------------
(* onSuccess: the fold of a stream's events into one ai_answer *)

AnswerKeys == Fields \cup {"model_used"}

\* variant of NewAnswer: one ai_answer object kept across onSuccess calls
PreviousAnswer ==
  IF \E p \in 1..Len(messages) : messages[p].kind = "ai_answer"
  THEN messages[CHOOSE p \in 1..Len(messages) :
                  /\ messages[p].kind = "ai_answer"
                  /\ \A r \in (p + 1)..Len(messages) : messages[r].kind # "ai_answer"
               ].ai_answer
  ELSE [k \in {"answer", "formatted_data_for_visualization",
               "recommended_visualization", "sql_query", "sql_valid",
               "parsed_question", "model_used"} |-> "undefined"]

\* const ai_answer:any = {}
NewAnswer == [k \in AnswerKeys |-> Missing]

\* reading a property of null or undefined throws a TypeError
TypeError == "TypeError"

\* an element of data that is null or undefined: every property read throws
NullEvent == [f \in Fields |-> TypeError]

\* a number where a string, an object or a boolean is expected
WrongType == "42"

\* the fold left by an exception: onSuccess does not get past data.forEach
Thrown == [k \in AnswerKeys |-> TypeError]

\* variant of ForEachMessage: sql_valid tested like the other fields, if(message.sql_valid)
ForEachMessageTruthy(ai_answer, message) ==
  [k \in AnswerKeys |->
     IF k = "model_used" THEN ai_answer[k]
     ELSE IF Truthy(message[k]) THEN message[k] ELSE ai_answer[k]]

\* the callback of data.forEach: one event folded into ai_answer
ForEachMessage(ai_answer, message) ==
  IF ai_answer = Thrown \/ message = NullEvent THEN Thrown
  ELSE
  [k \in AnswerKeys |->
     IF k = "model_used" THEN ai_answer[k]
     ELSE IF k = "sql_valid"
       THEN (IF message[k] # Missing THEN message[k] ELSE ai_answer[k])
       ELSE (IF Truthy(message[k]) THEN message[k] ELSE ai_answer[k])]

RECURSIVE ForEach(_, _)
\* data.forEach(...) applied to ai_answer, first event first
ForEach(ai_answer, data) ==
  IF data = << >> THEN ai_answer
  ELSE ForEach(ForEachMessage(ai_answer, Head(data)), Tail(data))

\* variant of StampModel: the model is recorded only next to an answer text
StampModelIfText(ai_answer, model) ==
  IF Truthy(ai_answer["answer"]) THEN [ai_answer EXCEPT !["model_used"] = model]
  ELSE ai_answer

\* ai_answer["model_used"] = selectedModel
StampModel(ai_answer, model) == [ai_answer EXCEPT !["model_used"] = model]

\* the ai_answer onSuccess builds from the stream's events and the model it reads
BuildAnswer(data, model) ==
  LET ai_answer == ForEach(NewAnswer, data)
  IN IF ai_answer = Thrown THEN Thrown ELSE StampModel(ai_answer, model)

\* variant of OnSuccessMessages: an ai_answer without answer text is not appended
OnSuccessMessagesIfText(prevMessages, ai_answer) ==
  IF Truthy(ai_answer["answer"])
  THEN Append(prevMessages, [kind |-> "ai_answer", ai_answer |-> ai_answer])
  ELSE prevMessages

\* setMessages((prevMessages) => [...prevMessages, {ai_answer}]), which is not
\* reached when the fold threw
OnSuccessMessages(prevMessages, ai_answer) ==
  IF ai_answer = Thrown THEN prevMessages
  ELSE Append(prevMessages, [kind |-> "ai_answer", ai_answer |-> ai_answer])

\* onStreamData: setProcessingMessages(data)
OnStreamData(prevProcessing, data) == data

\* variant of OnStreamFailure: an onError callback that clears the progress list
OnStreamFailureClears(prevProcessing) == << >>

\* no error callback is handed to useStreamChat: a failure leaves the page state alone
OnStreamFailure(prevProcessing) == prevProcessing

-----------------------------------------------------------------------------
(* Route parameters and the dataset effect *)

NaN == -1

\* Number(data_source_id) for the route strings used here
Number(s) == CASE s = "1" -> 1 [] s = "2" -> 2 [] OTHER -> NaN

\* x === y on numbers: NaN equals nothing
StrictEq(x, y) == x # NaN /\ y # NaN /\ x = y

RouteIds == {Missing, "1"}

DataSet(id, type) == [id |-> id, type |-> type]

\* dataSetStore.dataSets before any list was stored (undefined)
NotLoaded == [loaded |-> FALSE, list |-> << >>]

Loaded(list) == [loaded |-> TRUE, list |-> list]

DataSetLists ==
  { Loaded(<< DataSet(2, "url") >>),
    Loaded(<< DataSet(2, "url"), DataSet(1, "spreadsheet") >>),
    Loaded(<< DataSet(1, "url") >>) }

FileUploadMessage(id) == [kind |-> "file_upload", dataSourceId |-> Number(id)]

\* dataSets.filter((dataSet) => dataSet.id === Number(data_source_id))
FilterDataSet(sets, id) ==
  LET Match(d) == StrictEq(d.id, Number(id)) IN SelectSeq(sets.list, Match)

\* variant of AddsFileUpload: without the messages.length === 0 test
AddsFileUploadAlways(msgs, dataSet) == dataSet.type = "spreadsheet"

\* chat.tsx: does the effect put the file-upload notice into the log?
AddsFileUpload(msgs, dataSet) == Len(msgs) = 0 /\ dataSet.type = "spreadsheet"

\* chat.tsx useEffect([data_source_id, dataSets]): the log after the effect
ChatEffectMessages(id, sets, msgs) ==
  IF Truthy(id) /\ sets.loaded
  THEN LET filtered == FilterDataSet(sets, id) IN
       IF Len(filtered) > 0 /\ AddsFileUpload(msgs, filtered[1])
       THEN << FileUploadMessage(id) >>
       ELSE msgs
  ELSE msgs

\* chat.tsx useEffect([data_source_id, dataSets]): datasetType after the effect
ChatEffectType(id, sets, type) ==
  IF Truthy(id) /\ sets.loaded
  THEN LET filtered == FilterDataSet(sets, id) IN
       IF Len(filtered) > 0 THEN filtered[1].type ELSE type
  ELSE "direct_chat"

\* header variant useEffect([data_source_id]): datasetType after the effect
HeaderEffectType(id, sets, type) ==
  IF sets.loaded /\ Len(FilterDataSet(sets, id)) > 0
  THEN FilterDataSet(sets, id)[1].type
  ELSE type

-----------------------------------------------------------------------------
(* Model catalog and the two selector surfaces *)

DefaultModelName == "gpt-4o-mini"

Model(name, platform) == [name |-> name, platform |-> platform]

\* lists the catalog endpoint may answer with (data.data.models)
ServerCatalogs ==
  { << Model("gpt-4o-mini", "openai"), Model("gpt-4o", "openai"),
       Model("gemma2-9b-it", "groq") >>,
    << Model("gpt-4o", "openai"), Model("gemma2-9b-it", "groq") >> }

\* ModelSelector.tsx catch branch
ModelSelectorFallback ==
  << Model("gpt-4o-mini", "openai"), Model("gpt-4o", "openai") >>

\* SelectDataset.tsx catch branch
SelectDatasetFallback ==
  << Model("gpt-4o-mini", "openai"), Model("gemma2-9b-it", "groq") >>

\* outcomes of fetch + response.json() + the shape test
FetchOutcomes ==
  { [kind |-> "ok", models |-> c] : c \in ServerCatalogs }
    \cup { [kind |-> "unusable", models |-> << >>],
           [kind |-> "throw", models |-> << >>] }

\* variant of Mounted: the component state starts from the static list
MountedWithFallback ==
  [mounted |-> TRUE,
   availableModels |-> << [name |-> "gpt-4o-mini", platform |-> "openai"],
                          [name |-> "gpt-4o", platform |-> "openai"] >>,
   loadingModels |-> TRUE]

\* a surface as it is right after mounting: useState([]) and useState(true)
Mounted == [mounted |-> TRUE, availableModels |-> << >>, loadingModels |-> TRUE]

\* a surface that is not rendered
Unmounted == [mounted |-> FALSE, availableModels |-> << >>, loadingModels |-> TRUE]

\* variant of FetchedModels: a catch branch that only logs the error
FetchedModelsNoFallback(prev, o, fallback) ==
  IF o.kind = "ok" THEN o.models ELSE prev

\* fetchModels: the surface's catalog after the fetch settled with outcome o
FetchedModels(prev, o, fallback) ==
  CASE o.kind = "ok" -> o.models
    [] o.kind = "throw" -> fallback
    [] OTHER -> prev

\* variant of HasDefault: any first model serves as the default
HasAnyModel(models) == Len(models) > 0

\* variant of LoadingAfter: setLoadingModels(false) at the end of the try block
LoadingAfterTryOnly(o) == o.kind # "ok"

\* finally: setLoadingModels(false), whatever the outcome o
LoadingAfter(o) == FALSE

\* availableModels.find(m => m.name === 'gpt-4o-mini') is found
HasDefault(models) == \E i \in 1..Len(models) : models[i].name = DefaultModelName

\* variant of DefaultEffectFires: without the !model test
DefaultEffectFiresAlways(model, surface) ==
  /\ surface.mounted
  /\ Len(surface.availableModels) > 0
  /\ HasDefault(surface.availableModels)

\* variant of DefaultEffectFires: fires for every model but the default
DefaultEffectFiresUnlessDefault(model, surface) ==
  /\ surface.mounted
  /\ model # DefaultModelName
  /\ Len(surface.availableModels) > 0
  /\ HasDefault(surface.availableModels)

\* variant of DefaultEffectFires: also resets a model the surface's catalog lacks
DefaultEffectFiresOnUnlisted(model, surface) ==
  /\ surface.mounted
  /\ \A i \in 1..Len(surface.availableModels) : surface.availableModels[i].name # model
  /\ Len(surface.availableModels) > 0
  /\ HasDefault(surface.availableModels)

\* the default-model effect of one surface: does it call setModel?
DefaultEffectFires(model, surface) ==
  /\ surface.mounted
  /\ ~Truthy(model)
  /\ Len(surface.availableModels) > 0
  /\ HasDefault(surface.availableModels)

\* the <option> values of a surface's <select>
Options(surface) ==
  {EmptyStr} \cup
  { surface.availableModels[i].name : i \in
      { j \in 1..Len(surface.availableModels) :
          surface.availableModels[j].platform \in {"openai", "groq"} } }

\* chat page: <SelectDataset /> is rendered while the log is empty
ShowsSelectDataset(msgs) == Len(msgs) = 0

\* header variant: <ModelSelector compact /> is rendered once the log is not empty
ShowsModelSelector(pg, msgs) == pg = "chat_header" /\ Len(msgs) > 0

\* initial value of dataSetStore.selectedModel
InitialModels == {EmptyStr, DefaultModelName}

NoPick == "no pick"

-----------------------------------------------------------------------------
(* The re-render a handler causes: surfaces mount and unmount with the log, *)
(* then the default-model effects of the mounted surfaces run.              *)

RenderSelectDataset(msgs, sd) ==
  IF ShowsSelectDataset(msgs) THEN sd ELSE Unmounted

RenderModelSelector(pg, msgs, ms) ==
  IF ShowsModelSelector(pg, msgs) THEN (IF ms.mounted THEN ms ELSE Mounted)
  ELSE Unmounted

\* the fetch useEffect of a surface that mounts: fetch(CHAT_ENDPOINTS.GET_MODELS)
IssuedFetch(name) == [surface |-> name, outcome |-> "pending", models |-> << >>]

\* fetchModels of surface `name` settled with outcome o, leaving the catalog `models`
SettledFetch(fs, name, o, models) ==
  [k \in 1..Len(fs) |->
     IF fs[k].surface = name /\ fs[k].outcome = "pending"
     THEN [surface |-> name, outcome |-> o.kind, models |-> models]
     ELSE fs[k]]

Commit(msgs, model, sd, ms, fs) ==
  LET sd2 == RenderSelectDataset(msgs, sd)
      ms2 == RenderModelSelector(page, msgs, ms)
      fires == DefaultEffectFires(model, sd2) \/ DefaultEffectFires(model, ms2)
  IN /\ fires => autoAssigned < MaxAutoAssign
     /\ fetches' = IF ms2.mounted /\ ~ms.mounted
                    THEN Append(fs, IssuedFetch("ModelSelector")) ELSE fs
     /\ messages' = msgs
     /\ selectDataset' = sd2
     /\ modelSelector' = ms2
     /\ selectedModel' = IF fires THEN DefaultModelName ELSE model
     /\ autoAssigned' = IF fires THEN autoAssigned + 1 ELSE autoAssigned

-----------------------------------------------------------------------------
(* askQuestion and the streaming hook *)

Questions == {"q1", "q2"}

\* events the backend sends in the system specification
SystemEvents == { OneField("answer", "s1"), OneField("sql_query", "s2") }

\* events the backend sends in the fold specification: {} and every {f: v}
FoldEvents ==
  {EmptyEvent} \cup
  UNION { { OneField(f, v) : v \in WireValues(f) \ {Missing} } : f \in Fields }

\* events of a backend that also sends partial and malformed elements: {} (or
\* an object with unknown fields only, or a number), null, a well-formed
\* answer, and fields of the wrong type
MalformedEvents ==
  { EmptyEvent, NullEvent, OneField("answer", "s1"),
    OneField("answer", WrongType), OneField("sql_valid", WrongType) }

\* variant of AskQuestionMessages: the question is not put into the log
AskQuestionMessagesSkipped(prevMessages, q) == prevMessages

\* askQuestion: setMessages((prevMessages) => [...prevMessages, {user_question}])
AskQuestionMessages(prevMessages, q) ==
  Append(prevMessages, [kind |-> "user_question", user_question |-> q])

\* datasetType || fallback
TypeOr(type, fallback) == IF Truthy(type) THEN type ELSE fallback

\* chat.tsx askQuestion: requestBody
ChatRequestBody(q, type, model, id, conv) ==
  [question |-> q,
   type |-> TypeOr(type, "direct_chat"),
   llm_model |-> model,
   has_dataset_id |-> Truthy(id),
   dataset_id |-> IF Truthy(id) THEN Number(id) ELSE NaN,
   conversation |-> IF Truthy(conv) THEN Number(conv) ELSE NaN,
   keys |-> {"question", "type", "llm_model"}
              \cup (IF Truthy(id) THEN {"dataset_id", "selected_tables"} ELSE {})
              \cup (IF Truthy(conv) THEN {"conversaction_id"} ELSE {})]

\* header variant askQuestion: the object handed to sendMessage
HeaderRequestBody(q, type, model, id, conv) ==
  [question |-> q,
   type |-> TypeOr(type, "url"),
   llm_model |-> model,
   has_dataset_id |-> TRUE,
   dataset_id |-> Number(id),
   conversation |-> Number(conv),
   keys |-> {"question", "type", "conversaction_id", "dataset_id",
             "selected_tables", "llm_model"}]

RequestBody(pg, q, type, model, id, conv) ==
  IF pg = "chat" THEN ChatRequestBody(q, type, model, id, conv)
  ELSE HeaderRequestBody(q, type, model, id, conv)

\* useStreamChat: the stream one sendMessage call opens.  qpos and apos are
\* history: where its question sits in the log and where its answer went.
NewStream(req, qpos) ==
  [req |-> req, data |-> << >>, status |-> "pending", qpos |-> qpos, apos |-> 0]

Pending(i) == i \in 1..Len(streams) /\ streams[i].status = "pending"

-----------------------------------------------------------------------------
(* Initial states: the page right after mounting and its first effects *)

Init ==
  /\ page \in {"chat", "chat_header"}
  /\ data_source_id \in RouteIds
  /\ conversation_id \in RouteIds
  /\ dataSets \in {NotLoaded} \cup DataSetLists
  /\ datasetType =
       IF page = "chat" THEN ChatEffectType(data_source_id, dataSets, Missing)
       ELSE HeaderEffectType(data_source_id, dataSets, Missing)
  /\ messages =
       IF page = "chat" THEN ChatEffectMessages(data_source_id, dataSets, << >>)
       ELSE << >>
  /\ processingMessages = << >>
  /\ selectedModel \in InitialModels
  /\ streams = << >>
  /\ selectDataset = RenderSelectDataset(messages, Mounted)
  /\ modelSelector = RenderModelSelector(page, messages, Unmounted)
  /\ lastPick = NoPick
  /\ autoAssigned = 0
  /\ fetches = << IssuedFetch("SelectDataset") >>

-----------------------------------------------------------------------------
(* Actions *)

\* send button onClick: askQuestion(), with `question` the text-area content
AskQuestion(question) ==
  /\ Len(streams) < MaxQuestions
  /\ LET msgs == AskQuestionMessages(messages, question)
         req == RequestBody(page, question, datasetType, selectedModel, data_source_id,
                            conversation_id)
     IN /\ processingMessages' = << >>
        /\ streams' = Append(streams, NewStream(req, Len(msgs)))
        /\ Commit(msgs, selectedModel, selectDataset, modelSelector, fetches)
  /\ UNCHANGED << page, conversation_id, data_source_id, dataSets, datasetType, lastPick >>

\* the hook received one more event of stream i and calls onStreamData
StreamEvent(i, e, max) ==
  /\ Pending(i)
  /\ Len(streams[i].data) < max
  /\ LET data == Append(streams[i].data, e)
     IN /\ streams' = [streams EXCEPT ![i].data = data]
        /\ processingMessages' = OnStreamData(processingMessages, data)
  /\ UNCHANGED << page, conversation_id, data_source_id, dataSets, datasetType, messages,
                  selectedModel, selectDataset, modelSelector, lastPick, autoAssigned,
                  fetches >>

\* variant of ModelRead: the model captured when the question was submitted
ModelAtSubmission(i) == streams[i].req.llm_model

\* the selectedModel the onSuccess call for stream i reads (the current render's)
ModelRead(i) == selectedModel

\* stream i ended well: the hook calls onSuccess with the stream's events
StreamSuccess(i) ==
  /\ Pending(i)
  /\ LET msgs == OnSuccessMessages(messages, BuildAnswer(streams[i].data, ModelRead(i)))
     IN /\ streams' = [streams EXCEPT
                        ![i].status = "success",
                        ![i].apos = IF Len(msgs) > Len(messages) THEN Len(msgs) ELSE 0]
        /\ Commit(msgs, selectedModel, selectDataset, modelSelector, fetches)
  /\ UNCHANGED << page, conversation_id, data_source_id, dataSets, datasetType,
                  processingMessages, lastPick >>

\* stream i failed
StreamFailure(i) ==
  /\ Pending(i)
  /\ streams' = [streams EXCEPT ![i].status = "error"]
  /\ processingMessages' = OnStreamFailure(processingMessages)
  /\ UNCHANGED << page, conversation_id, data_source_id, dataSets, datasetType, messages,
                  selectedModel, selectDataset, modelSelector, lastPick, autoAssigned,
                  fetches >>

\* dataSetStore.dataSets changes; the chat page's effect depends on it
DataSetsChange(sets) ==
  /\ sets # dataSets
  /\ dataSets' = sets
  /\ IF page = "chat"
     THEN /\ datasetType' = ChatEffectType(data_source_id, sets, datasetType)
          /\ Commit(ChatEffectMessages(data_source_id, sets, messages),
                    selectedModel, selectDataset, modelSelector, fetches)
     ELSE UNCHANGED << datasetType, messages, selectedModel, selectDataset,
                       modelSelector, autoAssigned, fetches >>
  /\ UNCHANGED << page, conversation_id, data_source_id, processingMessages, streams,
                  lastPick >>

\* SelectDataset: fetchModels settles while the surface is mounted (the state
\* updates of a fetch that settles after its surface unmounted are dropped)
SelectDatasetFetch(o) ==
  /\ selectDataset.mounted /\ selectDataset.loadingModels
  /\ LET models == FetchedModels(selectDataset.availableModels, o, SelectDatasetFallback)
     IN Commit(messages, selectedModel,
               [selectDataset EXCEPT !.availableModels = models,
                                     !.loadingModels = LoadingAfter(o)],
               modelSelector,
               SettledFetch(fetches, "SelectDataset", o, models))
  /\ UNCHANGED << page, conversation_id, data_source_id, dataSets, datasetType,
                  processingMessages, streams, lastPick >>

\* ModelSelector: fetchModels settles
ModelSelectorFetch(o) ==
  /\ modelSelector.mounted /\ modelSelector.loadingModels
  /\ LET models == FetchedModels(modelSelector.availableModels, o, ModelSelectorFallback)
     IN Commit(messages, selectedModel, selectDataset,
               [modelSelector EXCEPT !.availableModels = models,
                                     !.loadingModels = LoadingAfter(o)],
               SettledFetch(fetches, "ModelSelector", o, models))
  /\ UNCHANGED << page, conversation_id, data_source_id, dataSets, datasetType,
                  processingMessages, streams, lastPick >>

\* <select> onChange of a surface: setModel(e.target.value)
SelectModel(surface, m) ==
  /\ surface.mounted /\ ~surface.loadingModels
  /\ m \in Options(surface)
  /\ m # selectedModel
  /\ lastPick' = m
  /\ Commit(messages, m, selectDataset, modelSelector, fetches)
  /\ UNCHANGED << page, conversation_id, data_source_id, dataSets, datasetType,
                  processingMessages, streams >>

ModelNames == {EmptyStr, "gpt-4o-mini", "gpt-4o", "gemma2-9b-it"}

\* the question cycle: submission, events, terminal signals
StreamNext(texts, max) ==
  \/ \E q \in texts : AskQuestion(q)
  \/ \E i \in 1..MaxQuestions, e \in SystemEvents : StreamEvent(i, e, max)
  \/ \E i \in 1..MaxQuestions : StreamSuccess(i)
  \/ \E i \in 1..MaxQuestions : StreamFailure(i)

\* the selector surfaces: catalog fetches and user selections
SelectorNext ==
  \/ \E o \in FetchOutcomes : SelectDatasetFetch(o)
  \/ \E o \in FetchOutcomes : ModelSelectorFetch(o)
  \/ \E m \in ModelNames : SelectModel(selectDataset, m)
  \/ \E m \in ModelNames : SelectModel(modelSelector, m)

(* Direct chat sessions (no data source in the route): the dataset effect   *)
(* only re-asserts datasetType = 'direct_chat', so changes of dataSets are  *)
(* left out.  The conversation is a new one.                                *)
DirectChatInit ==
  Init /\ data_source_id = Missing /\ conversation_id = Missing /\ dataSets = NotLoaded

Next == StreamNext({"q1"}, MaxSelectorEvents) \/ SelectorNext

Spec == DirectChatInit /\ [][Next]_vars

(* Sessions with any route and any dataset list; the model selection is     *)
(* left as the store initialised it.                                        *)
DataInit == Init /\ selectedModel = DefaultModelName

DataNext ==
  \/ StreamNext(Questions, MaxEvents)
  \/ \E sets \in DataSetLists : DataSetsChange(sets)

DataSpec == DataInit /\ [][DataNext]_vars

(* One question whose stream carries any events: the fold of onSuccess.     *)
FoldInit == DirectChatInit /\ selectedModel = DefaultModelName

FoldNext ==
  \/ Len(streams) = 0 /\ AskQuestion("q1")
  \/ \E e \in FoldEvents : StreamEvent(1, e, MaxFoldEvents)
  \/ StreamSuccess(1)
  \/ StreamFailure(1)

FoldSpec == FoldInit /\ [][FoldNext]_vars

(* One question whose stream carries partial and malformed events.          *)
MalformedNext ==
  \/ Len(streams) = 0 /\ AskQuestion("q1")
  \/ \E e \in MalformedEvents : StreamEvent(1, e, MaxFoldEvents)
  \/ StreamSuccess(1)
  \/ StreamFailure(1)

MalformedSpec == FoldInit /\ [][MalformedNext]_vars

\* variant of TerminalFairness: a hook without a timeout
NoTimeout == WF_vars(StreamFailure(MaxQuestions + 1))

(* The hook's timeout: a session that receives no terminal signal is ended  *)
(* with a failure terminal, so the failure terminal of a pending stream     *)
(* cannot stay possible forever without happening.                          *)
TerminalFairness == \A i \in 1..MaxQuestions : WF_vars(StreamFailure(i))

(* Question cycles of direct-chat sessions under the hook's timeout.        *)
LiveInit == DirectChatInit /\ selectedModel = DefaultModelName

LiveNext == StreamNext(Questions, MaxEvents)

LiveSpec == LiveInit /\ [][LiveNext]_vars /\ TerminalFairness

-----------------------------------------------------------------------------
(* Properties *)

AnswerPositions == { p \in 1..Len(messages) : messages[p].kind = "ai_answer" }

Succeeded == { i \in 1..Len(streams) : streams[i].status = "success" }

\* stream i delivers an event or its success terminal
Delivers(i) ==
  \/ \E e \in SystemEvents : StreamEvent(i, e, MaxEvents)
  \/ StreamSuccess(i)

(* C1 (as claimed): once a later question has been submitted, no event and  *)
(* no success terminal of an earlier stream changes processingMessages or   *)
(* messages.                                                                *)
C1_SupersededStreamIsIgnored ==
  [][\A i \in 1..MaxQuestions :
       (i < Len(streams) /\ Delivers(i)) => UNCHANGED << processingMessages, messages >>]_vars

\* the answer stream i appended
AnswerOf(i) == messages[streams[i].apos].ai_answer

\* event j is the last event of data that has key f at all
LastCarrier(data, f, j) ==
  /\ data[j][f] # Missing
  /\ \A k \in (j + 1)..Len(data) : data[k][f] = Missing

(* C2: when two events of a stream carry the same field with different      *)
(* present values, the Answer holds the value of the one folded last, for   *)
(* each of the six fields.                                                  *)
C2_LastWriteWins ==
  \A s \in Succeeded : \A f \in Fields :
    LET data == streams[s].data IN
    \A i, j \in 1..Len(data) :
      ( /\ i < j
        /\ data[i][f] \in PresentValues(f)
        /\ data[j][f] \in PresentValues(f)
        /\ data[i][f] # data[j][f]
        /\ LastCarrier(data, f, j) )
      => AnswerOf(s)[f] = data[j][f]

\* a succeeded stream whose last two events carry sql_valid true, then false
C2_Witness ==
  \E s \in Succeeded :
    LET data == streams[s].data IN
    /\ Len(data) >= 2
    /\ data[Len(data) - 1]["sql_valid"] = JsTrue
    /\ data[Len(data)]["sql_valid"] = JsFalse
    /\ AnswerOf(s)["sql_valid"] = JsFalse

C4_FailureKeepsState ==
  [][\A i \in 1..MaxQuestions :
       StreamFailure(i) => UNCHANGED << messages, processingMessages >>]_vars

\* a failed stream whose events are still shown, and no Answer in the log
C4_Witness ==
  \E i \in 1..Len(streams) :
    /\ streams[i].status = "error"
    /\ streams[i].data # << >>
    /\ processingMessages = streams[i].data
    /\ AnswerPositions = {}

(* C5: the log is append-only: no step shortens it or changes an entry it   *)
(* already holds.                                                           *)
C5_AppendOnly ==
  [][/\ Len(messages') >= Len(messages)
     /\ \A p \in 1..Len(messages) : messages'[p] = messages[p]]_vars

\* the dataset effect ran for a matching spreadsheet over a log that starts
\* with a question: nothing was replaced
C5_Witness ==
  /\ Len(messages) >= 2
  /\ messages[1].kind = "user_question"
  /\ dataSets.loaded
  /\ Len(FilterDataSet(dataSets, data_source_id)) > 0
  /\ FilterDataSet(dataSets, data_source_id)[1].type = "spreadsheet"

(* C6: the question of every stream is in the log, at the position it was   *)
(* appended to on submission, from the moment the stream exists; the        *)
(* stream's Answer comes after it.                                          *)
C6_QuestionLoggedFirst ==
  \A i \in 1..Len(streams) :
    /\ streams[i].qpos \in 1..Len(messages)
    /\ messages[streams[i].qpos] =
         [kind |-> "user_question", user_question |-> streams[i].req.question]
    /\ streams[i].apos # 0 => streams[i].apos > streams[i].qpos

\* a stream that delivered events and then its Answer
C6_Witness ==
  \E i \in Succeeded : streams[i].data # << >> /\ streams[i].apos > streams[i].qpos

(* C7: the Answer appended on success carries the model selected at that    *)
(* moment.                                                                  *)
C7_ModelReadAtAssembly ==
  [][\A i \in 1..MaxQuestions :
       StreamSuccess(i) =>
         /\ messages'[Len(messages')].kind = "ai_answer"
         /\ messages'[Len(messages')].ai_answer["model_used"] = selectedModel]_vars

\* the selection changed between submission and success
C7_Witness ==
  \E i \in Succeeded :
    /\ AnswerOf(i)["model_used"] # streams[i].req.llm_model
    /\ AnswerOf(i)["model_used"] = selectedModel

(* C8 (as claimed): every Answer's model_used is the llm_model of the       *)
(* request that produced it.                                                *)
C8_ModelUsedIsRequestModel ==
  \A i \in Succeeded : AnswerOf(i)["model_used"] = streams[i].req.llm_model

(* C9 (as claimed): whatever option the user picked last, the empty one     *)
(* included, is the selected model.                                         *)
C9_AnyPickStands == lastPick # NoPick => selectedModel = lastPick

(* C9 (amended): a model the user picked is never changed automatically:    *)
(* while the last pick is a model name, it is the selected model.           *)
C9_ModelPickStands == Truthy(lastPick) /\ lastPick # NoPick => selectedModel = lastPick

\* the user's pick is still selected although the header selector has
\* mounted and loaded a catalog holding the default
C9_Witness ==
  /\ lastPick = "gpt-4o"
  /\ selectedModel = "gpt-4o"
  /\ modelSelector.mounted
  /\ HasDefault(modelSelector.availableModels)

\* the user picks the empty option in this step
PicksEmpty ==
  SelectModel(selectDataset, EmptyStr) \/ SelectModel(modelSelector, EmptyStr)

(* C10 (as claimed): the default is assigned at most once in a run.         *)
C10_AssignedOnce == autoAssigned <= 1

(* C10 (amended): the default is assigned only over an unset selection      *)
(* (unset before the step, or emptied by the user in it), and sets          *)
(* gpt-4o-mini; it is assigned again each time the user empties the         *)
(* selection while a mounted catalog holds the default.                     *)
C10_AssignedOnlyWhenUnset ==
  [][autoAssigned' # autoAssigned =>
       /\ autoAssigned' = autoAssigned + 1
       /\ selectedModel' = DefaultModelName
       /\ ~Truthy(selectedModel) \/ PicksEmpty]_vars

\* the default has been assigned a second time
C10_Witness == autoAssigned = 2 /\ selectedModel = DefaultModelName /\ lastPick = EmptyStr

-----------------------------------------------------------------------------
(* Model catalog: fallback, number of loads *)

\* the selector surfaces by the name their fetches are recorded under
SurfaceOf(name) == IF name = "SelectDataset" THEN selectDataset ELSE modelSelector

FallbackOf(name) ==
  IF name = "SelectDataset" THEN SelectDatasetFallback ELSE ModelSelectorFallback

Platforms(models) == { models[i].platform : i \in 1..Len(models) }

Names(models) == { models[i].name : i \in 1..Len(models) }

Settled == { k \in 1..Len(fetches) : fetches[k].outcome # "pending" }

(* C11 (as claimed): whenever a catalog fetch settled without a usable       *)
(* result (it threw, or the body had no status_code 200 or no models), the  *)
(* surface's catalog is its fallback list, and no surface that finished     *)
(* loading shows an empty catalog.                                          *)
C11_FallbackOnEveryFailure ==
  /\ \A k \in Settled :
       fetches[k].outcome \in {"throw", "unusable"}
         => fetches[k].models = FallbackOf(fetches[k].surface)
  /\ \A name \in {"SelectDataset", "ModelSelector"} :
       (SurfaceOf(name).mounted /\ ~SurfaceOf(name).loadingModels)
         => Len(SurfaceOf(name).availableModels) > 0

(* C12 (as claimed): the list a surface substitutes when its fetch throws   *)
(* has at least one openai entry and at least one groq entry, in            *)
(* SelectDataset and in ModelSelector.                                      *)
C12_FallbackCoversPlatforms ==
  \A k \in Settled :
    fetches[k].outcome = "throw"
      => {"openai", "groq"} \subseteq Platforms(fetches[k].models)

(* C13 (as claimed): over all selector mounts of a session at most one      *)
(* catalog fetch is issued, and all surfaces that loaded a catalog hold the *)
(* same one.                                                                *)
C13_CatalogLoadedOnce ==
  /\ Len(fetches) <= 1
  /\ \A k1, k2 \in Settled : fetches[k1].models = fetches[k2].models

-----------------------------------------------------------------------------
(* The fold, event by event *)

\* a field without a value: not there, null, or the empty string
IsAbsent(v) == v \in {Missing, Null, EmptyStr}

\* the fields event e holds a value for
PresentFields(e) == { f \in Fields : ~IsAbsent(e[f]) }

\* the draft after the first k events of data were folded
DraftAfter(data, k) == ForEach(NewAnswer, SubSeq(data, 1, k))

(* C14 (as claimed): while the events of one stream are folded, a draft     *)
(* field that holds a value after k events still holds a value after k+1    *)
(* events, whatever event k+1 carries for that field.                       *)
C14_DraftFieldsMonotone ==
  \A i \in 1..Len(streams) :
    \A k \in 1..Len(streams[i].data), f \in Fields :
      ~IsAbsent(DraftAfter(streams[i].data, k - 1)[f])
        => ~IsAbsent(DraftAfter(streams[i].data, k)[f])

PairwiseDisjoint(data) ==
  \A j1, j2 \in 1..Len(data) :
    j1 # j2 => PresentFields(data[j1]) \cap PresentFields(data[j2]) = {}

Orders(n) ==
  { p \in [1..n -> 1..n] : \A j1, j2 \in 1..n : p[j1] = p[j2] => j1 = j2 }

\* field f of the union of the events' present fields (Missing if no event has it)
UnionField(data, f) ==
  IF \E j \in 1..Len(data) : f \in PresentFields(data[j])
  THEN data[CHOOSE j \in 1..Len(data) : f \in PresentFields(data[j])][f]
  ELSE Missing

\* two field values are the same value, or both no value
SameValue(v, w) == v = w \/ (IsAbsent(v) /\ IsAbsent(w))

(* C15 (as claimed): when the present fields of a stream's events are       *)
(* pairwise disjoint, the fields folded from them are the union of the      *)
(* events' present fields, and folding the events in any other order gives  *)
(* the same fields.                                                         *)
C15_OrderIndependent ==
  \A i \in 1..Len(streams) :
    LET data == streams[i].data
    IN PairwiseDisjoint(data) =>
         /\ \A f \in Fields :
              SameValue(ForEach(NewAnswer, data)[f], UnionField(data, f))
         /\ \A p \in Orders(Len(data)), f \in Fields :
              SameValue(ForEach(NewAnswer, [j \in 1..Len(data) |-> data[p[j]]])[f],
                        ForEach(NewAnswer, data)[f])

-----------------------------------------------------------------------------
(* Zero-event streams, and the end of every question cycle *)

(* C16: when a stream that delivered no event ends with its success         *)
(* terminal, the Answer appended has none of the six optional fields and    *)
(* its model_used is the model selected at that moment.                     *)
C16_ZeroEventAnswer ==
  [][\A i \in 1..MaxQuestions :
       (StreamSuccess(i) /\ streams[i].data = << >>)
         => /\ Len(messages') = Len(messages) + 1
            /\ messages'[Len(messages')].kind = "ai_answer"
            /\ \A f \in Fields : messages'[Len(messages')].ai_answer[f] = Missing
            /\ messages'[Len(messages')].ai_answer["model_used"] = selectedModel]_vars

C16_Witness ==
  \E i \in Succeeded :
    /\ streams[i].data = << >>
    /\ \A f \in Fields : AnswerOf(i)[f] = Missing
    /\ AnswerOf(i)["model_used"] = "gpt-4o"

\* the cycle of question i is over: Completed, Failed or Superseded
CycleEnded(i) ==
  /\ i \in 1..Len(streams)
  /\ \/ streams[i].status = "success" /\ streams[i].apos \in AnswerPositions
     \/ streams[i].status = "error"
     \/ i < Len(streams)

-----------------------------------------------------------------------------
(* Default selection and catalog loads *)

\* fetch k settles in this step
Settles(k) ==
  /\ k \in 1..Len(fetches)
  /\ fetches[k].outcome = "pending"
  /\ fetches'[k].outcome # "pending"

\* the surfaces as they are after the step
MountedAfter(name) == SurfaceOf(name)'.mounted

CatalogAfter(name) == SurfaceOf(name)'.availableModels

(* C18: when a surface's catalog fetch throws, the surface's catalog        *)
(* becomes its fallback list, and if no model is selected at that point the *)
(* selection becomes gpt-4o-mini, which that fallback list contains.        *)
C18_ThrowGivesFallbackAndDefault ==
  [][\A k \in 1..Len(fetches) :
       (Settles(k) /\ fetches'[k].outcome = "throw")
         => /\ CatalogAfter(fetches[k].surface) = FallbackOf(fetches[k].surface)
            /\ DefaultModelName \in Names(CatalogAfter(fetches[k].surface))
            /\ ~Truthy(selectedModel) => selectedModel' = DefaultModelName]_vars

C18_Witness ==
  /\ Len(fetches) = 1
  /\ fetches[1].outcome = "throw"
  /\ selectDataset.availableModels = SelectDatasetFallback
  /\ lastPick = NoPick
  /\ autoAssigned = 1
  /\ selectedModel = DefaultModelName

(* C19: while no model is selected and no displayed catalog contains        *)
(* gpt-4o-mini, no automatic step selects a model: the selection stays      *)
(* unset until the user picks one.                                          *)
C19_NoSubstituteDefault ==
  [][(/\ ~Truthy(selectedModel)
      /\ lastPick' = lastPick
      /\ \A name \in {"SelectDataset", "ModelSelector"} :
           MountedAfter(name) => DefaultModelName \notin Names(CatalogAfter(name)))
       => ~Truthy(selectedModel')]_vars

C19_Witness ==
  /\ selectDataset.mounted /\ ~selectDataset.loadingModels
  /\ Len(selectDataset.availableModels) > 0
  /\ DefaultModelName \notin Names(selectDataset.availableModels)
  /\ ~Truthy(selectedModel)
  /\ lastPick = NoPick

(* C20: a catalog load that settles with gpt-4o-mini in the catalog, such   *)
(* as the load of a second surface that mounts later, leaves a model the    *)
(* user picked as it is.                                                    *)
C20_LoadKeepsPick ==
  [][\A k \in 1..Len(fetches) :
       (/\ Settles(k)
        /\ DefaultModelName \in Names(fetches'[k].models)
        /\ Truthy(selectedModel) /\ selectedModel = lastPick)
         => selectedModel' = selectedModel]_vars

C20_Witness ==
  /\ lastPick = "gemma2-9b-it"
  /\ selectedModel = "gemma2-9b-it"
  /\ modelSelector.mounted /\ ~modelSelector.loadingModels
  /\ modelSelector.availableModels = ModelSelectorFallback

-----------------------------------------------------------------------------
(* The question pipeline and the model selection *)

\* a step of the question pipeline: submission, event, terminal signal
PipelineStep ==
  \/ \E q \in Questions : AskQuestion(q)
  \/ \E i \in 1..MaxQuestions, e \in SystemEvents : StreamEvent(i, e, MaxSelectorEvents)
  \/ \E i \in 1..MaxQuestions : StreamSuccess(i)
  \/ \E i \in 1..MaxQuestions : StreamFailure(i)

(* C21: submitting a question, receiving a stream event and appending an    *)
(* Answer (or failing) leave the selected model as it is.                   *)
C21_PipelineKeepsSelection ==
  [][PipelineStep => selectedModel' = selectedModel]_vars

C21_Witness ==
  /\ lastPick = "gpt-4o"
  /\ selectedModel = "gpt-4o"
  /\ \E i \in Succeeded :
       /\ streams[i].req.llm_model = "gpt-4o"
       /\ streams[i].data # << >>
       /\ AnswerOf(i)["model_used"] = "gpt-4o"

-----------------------------------------------------------------------------
(* Malformed events *)

(* C22 (as claimed): whatever elements the stream carried (empty objects,   *)
(* unknown fields, fields of the wrong type, null), onSuccess completes:    *)
(* the Answer is appended, and each of its fields is absent or a            *)
(* well-formed value.                                                       *)
C22_FoldNeverAborts ==
  \A i \in 1..Len(streams) :
    streams[i].status = "success"
      => /\ streams[i].apos \in AnswerPositions
         /\ \A f \in Fields : AnswerOf(i)[f] \in PresentValues(f) \cup {Missing}

-----------------------------------------------------------------------------
(* Progress list, drafts and the order of the log *)

(* C23 (as claimed): processingMessages is empty until a question is asked  *)
(* and from then on is the sequence of events received so far in the        *)
(* current (latest) stream, with no event of an earlier stream.             *)
C23_ProgressIsCurrentStream ==
  /\ Len(streams) = 0 => processingMessages = << >>
  /\ Len(streams) > 0 => processingMessages = streams[Len(streams)].data

(* C24: every field value of an Answer was carried by an event of the       *)
(* stream that produced it; nothing of an earlier question's events shows   *)
(* up in a later Answer.                                                    *)
C24_AnswerFromOwnStream ==
  \A i \in Succeeded : \A f \in Fields :
    AnswerOf(i)[f] # Missing
      => \E j \in 1..Len(streams[i].data) : streams[i].data[j][f] = AnswerOf(i)[f]

C24_Witness ==
  /\ Len(streams) = 2
  /\ Succeeded = {1, 2}
  /\ streams[1].apos < streams[2].apos
  /\ AnswerOf(1)["answer"] = "s1"
  /\ streams[2].data = << OneField("sql_query", "s2") >>
  /\ AnswerOf(2)["answer"] = Missing
  /\ AnswerOf(2)["sql_query"] = "s2"

QuestionPositions == { p \in 1..Len(messages) : messages[p].kind = "user_question" }

(* C26 (as claimed): every Answer sits right after the UserQuestion that    *)
(* produced it, and the log never holds more Answers than UserQuestions.    *)
C26_AnswerFollowsItsQuestion ==
  /\ \A i \in Succeeded : streams[i].apos = streams[i].qpos + 1
  /\ Cardinality(AnswerPositions) <= Cardinality(QuestionPositions)

-----------------------------------------------------------------------------
(* The request askQuestion sends *)

(* C25 (as claimed): every request carries question, type and llm_model;    *)
(* it carries dataset_id and selected_tables exactly when the route has a   *)
(* data source id; it carries the field conversation_id exactly when the    *)
(* route has a conversation id; and no identifier it carries is NaN.        *)
C25_RequestFields ==
  \A i \in 1..Len(streams) :
    LET r == streams[i].req
    IN /\ {"question", "type", "llm_model"} \subseteq r.keys
       /\ ("dataset_id" \in r.keys) <=> Truthy(data_source_id)
       /\ ("selected_tables" \in r.keys) <=> Truthy(data_source_id)
       /\ ("conversation_id" \in r.keys) <=> Truthy(conversation_id)
       /\ r.keys \subseteq {"question", "type", "llm_model", "dataset_id",
                            "selected_tables", "conversation_id"}
       /\ "dataset_id" \in r.keys => r.dataset_id # NaN
       /\ "conversation_id" \in r.keys => r.conversation # NaN

\* the request of the stream opened in this step
SentRequest == streams'[Len(streams')].req

(* C27 (as claimed): a request that carries dataset_id does not have type   *)
(* 'direct_chat', and its type is the type of the dataset with that id,     *)
(* also when the dataset list is not loaded yet or holds no such dataset.   *)
C27_RequestModeConsistent ==
  [][\A q \in Questions :
       (AskQuestion(q) /\ "dataset_id" \in SentRequest.keys)
         => /\ SentRequest.type # "direct_chat"
            /\ dataSets.loaded =>
                 \A j \in 1..Len(dataSets.list) :
                   dataSets.list[j].id = SentRequest.dataset_id
                     => SentRequest.type = dataSets.list[j].type]_vars

(* C28 (as claimed): the llm_model of every request sent is a model id,     *)
(* never unset or empty.                                                    *)
C28_ModelAlwaysSent ==
  \A i \in 1..Len(streams) : Truthy(streams[i].req.llm_model)

\* a surface shows its <select>
Displays(surface) == surface.mounted /\ ~surface.loadingModels

(* C29 (as claimed): the selected model is unset or is the name of a model  *)
(* in the catalog of every surface that shows its selector.                 *)
C29_SelectionIsListed ==
  \A name \in {"SelectDataset", "ModelSelector"} :
    Displays(SurfaceOf(name))
      => \/ ~Truthy(selectedModel)
         \/ selectedModel \in Names(SurfaceOf(name).availableModels)

(* C30: when a surface's catalog fetch settles, with a valid response, a    *)
(* response without a usable list or a thrown error, the surface's          *)
(* loadingModels becomes false, and it does not return to true while the    *)
(* surface stays mounted.                                                   *)
C30_LoadingEnds ==
  [][/\ \A k \in 1..Len(fetches) :
          Settles(k) => ~SurfaceOf(fetches[k].surface)'.loadingModels
     /\ \A name \in {"SelectDataset", "ModelSelector"} :
          (Displays(SurfaceOf(name)) /\ MountedAfter(name))
            => ~SurfaceOf(name)'.loadingModels]_vars

C30_Witness ==
  /\ \E k \in Settled : fetches[k].outcome = "unusable"
  /\ \E k \in Settled : fetches[k].outcome = "throw"
  /\ Displays(modelSelector)
  /\ Len(streams) > 0


=============================================================================
